---- MODULE Spec2Model ----
(***************************************************************************)
(* Model of scraping_stl.py: the SainteLyon results scraper.               *)
(*                                                                         *)
(* Python values are modelled as follows: a dict or an XML attribute map   *)
(* is a function whose domain is its key set; a list is a sequence; None   *)
(* is the string "None"; numpy's nan is the string "NaN"; every attribute  *)
(* value is a string (ElementTree gives strings); a year is an integer.    *)
(* A computation that raises is a result whose err field names the         *)
(* exception; err = "none" is normal completion.                           *)
(***************************************************************************)
EXTENDS Integers, Sequences, FiniteSets, TLC

VARIABLES
    pc,               \* position of the script
    yi,               \* index in Years of the year of the outer loop
    bib_numbers,      \* bib list of the year in progress
    bi,               \* iterations done by the runner loop in progress
    legacy_rows,      \* rows of the 2017 ranking
    data,             \* results accumulator (line 79)
    checkpoint_data,  \* checkpoint accumulator (line 80)
    file_results_new, \* Saintelyon_Results_new.csv
    file_results,     \* Saintelyon_Results.csv
    file_checkpoints, \* Saintelyon_checkpoints.csv
    error,            \* the exception that ended the script, "none" otherwise
    served,           \* per year started: the ranking response the site gave
    doc,              \* normalizer study: the runner document
    out               \* normalizer study: the result of normalizing doc

vars == <<pc, yi, bib_numbers, bi, legacy_rows, data, checkpoint_data,
          file_results_new, file_results, file_checkpoints, error, served,
          doc, out>>

runVars == <<pc, yi, bib_numbers, bi, legacy_rows, data, checkpoint_data,
             file_results_new, file_results, file_checkpoints, error, served>>

(***************************************************************************)
(* Bounds of the model.                                                    *)
(***************************************************************************)
MaxYears == 2      \* years of urls the outer loop goes through
MaxBibs == 2       \* bibs found on one ranking page
MaxLegacy == 1     \* rows of the 2017 ranking
MaxPts == 8        \* checkpoints declared by a document of the normalizer study
MaxExcluded == 2   \* of which excluded ones
MaxRaces == 1      \* past races of a document of the normalizer study

None == "None"
NaN == "NaN"

\* The keys of urls, in insertion order (2013 is written twice, one key).
urls == <<2024, 2023, 2022, 2021, 2019, 2018, 2016, 2015, 2014, 2013>>

Years == SubSeq(urls, 1, MaxYears)

useless == {"Animation 500m", "KM BV SPORT"}

\* dict.get(key, default) and "d[key] if key in d.keys() else default"
Get(attrib, key, default) == IF key \in DOMAIN attrib THEN attrib[key] ELSE default

\* An exception raised by the first failing step, in program order.
FirstError(errs) ==
    LET bad == {k \in 1..Len(errs) : errs[k] # "none"}
    IN  IF bad = {} THEN "none"
        ELSE errs[CHOOSE k \in bad : \A j \in bad : k <= j]

(***************************************************************************)
(* extract_bib_numbers: a ranking page is its status code and the          *)
(* sequence of the doss="(\d+)" matches of its text.                       *)
(***************************************************************************)
extract_bib_numbers(page) ==
    IF page.status_code = 200 THEN page.doss ELSE <<>>

(***************************************************************************)
(* extract_checkpoints                                                     *)
(***************************************************************************)
PtKey(i, what) == "Pt" \o ToString(i) \o " " \o what

PtAttrs == {"n", "km", "a", "d"}

RECURSIVE CheckpointLoop(_, _, _, _)
CheckpointLoop(checkpoints, k, i, info) ==
    IF k > Len(checkpoints) THEN [err |-> "none", info |-> info]
    ELSE LET cp == checkpoints[k] IN
         IF "n" \notin DOMAIN cp THEN [err |-> "KeyError", info |-> info]
         ELSE IF cp["n"] \in useless
              THEN CheckpointLoop(checkpoints, k + 1, i, info)
         ELSE IF ~(PtAttrs \subseteq DOMAIN cp)
              THEN [err |-> "KeyError", info |-> info]
         ELSE CheckpointLoop(checkpoints, k + 1, i + 1,
                  (PtKey(i, "name") :> cp["n"])
               @@ (PtKey(i, "distance") :> cp["km"])
               @@ (PtKey(i, "height") :> cp["a"])
               @@ (PtKey(i, "total elevation") :> cp["d"])
               @@ info)

\* response is what requests.get returned for the runner page: no status
\* check is made; ET.fromstring raises on a body that is not XML.
extract_checkpoints(response, year) ==
    IF ~response.xml THEN [err |-> "ParseError", info |-> <<>>]
    ELSE CheckpointLoop(response.pts, 1, 0, "Year" :> year)

(***************************************************************************)
(* The per-runner body of the main loop (lines 94-186).                    *)
(* A runner response is [status_code, xml, identite, state, pts, pass,     *)
(* palm]: xml says whether the body parses; identite, state and palm are   *)
(* sequences of at most one element (find gives None on <<>>); pts, pass   *)
(* and palm[1].e are the findall lists; every element is its attrib map.   *)
(***************************************************************************)

\* Identity with the first name read as the required attributes are.
IdentityStrict(root) ==
    IF root.identite = <<>> THEN [err |-> "AttributeError"]
    ELSE LET attrib == root.identite[1] IN
         IF ~({"nom", "prenom", "sx", "cat", "nat"} \subseteq DOMAIN attrib)
         THEN [err |-> "KeyError"]
         ELSE [err |-> "none",
               name |-> attrib["nom"],
               first_name |-> attrib["prenom"],
               sex |-> attrib["sx"],
               category |-> attrib["cat"],
               club |-> Get(attrib, "club", ""),
               nationality |-> attrib["nat"]]

\* Lines 100-106.
Identity(root) ==
    IF root.identite = <<>> THEN [err |-> "AttributeError"]
    ELSE LET attrib == root.identite[1] IN
         IF ~({"nom", "sx", "cat", "nat"} \subseteq DOMAIN attrib)
         THEN [err |-> "KeyError"]
         ELSE [err |-> "none",
               name |-> attrib["nom"],
               first_name |-> IF "prenom" \in DOMAIN attrib
                              THEN attrib["prenom"] ELSE None,
               sex |-> attrib["sx"],
               category |-> attrib["cat"],
               club |-> Get(attrib, "club", ""),
               nationality |-> attrib["nat"]]

\* Lines 109-112.
Rankings(root) ==
    IF root.state = <<>> THEN [err |-> "AttributeError"]
    ELSE LET attrib == root.state[1] IN
         IF "clt" \notin DOMAIN attrib THEN [err |-> "KeyError"]
         ELSE [err |-> "none",
               global_rank |-> attrib["clt"],
               category_rank |-> IF "cltcat" \in DOMAIN attrib
                                 THEN attrib["cltcat"] ELSE None,
               gender_rank |-> IF "cltsx" \in DOMAIN attrib
                               THEN attrib["cltsx"] ELSE None]

\* Line 116: a dict comprehension, a later pt of the same idpt wins.
checkpoint_dict(checkpoints) ==
    [id \in {checkpoints[k]["idpt"] : k \in 1..Len(checkpoints)} |->
        LET last == CHOOSE k \in 1..Len(checkpoints) :
                        /\ checkpoints[k]["idpt"] = id
                        /\ \A j \in 1..Len(checkpoints) :
                               checkpoints[j]["idpt"] = id => j <= k
        IN  checkpoints[last]["n"]]

\* Line 117.
checkpoints_ids(checkpoints) ==
    [k \in 1..Len(checkpoints) |-> checkpoints[k]["idpt"]]

\* Lines 131-137: the slot of a checkpoint that is not excluded; i counts the
\* splits consumed, splits[i] of the code is splits[i + 1] here.
SlotStep(id, splits, i, cptimes, cpranks) ==
    IF i >= Len(splits) THEN [err |-> "IndexError"]
    ELSE IF "idpt" \notin DOMAIN splits[i + 1] THEN [err |-> "KeyError"]
    ELSE IF id = splits[i + 1]["idpt"]
         THEN IF "tps" \notin DOMAIN splits[i + 1] THEN [err |-> "KeyError"]
              ELSE [err |-> "none", i |-> i + 1,
                    cptimes |-> Append(cptimes, splits[i + 1]["tps"]),
                    cpranks |-> Append(cpranks, Get(splits[i + 1], "clt", "-"))]
         ELSE [err |-> "none", i |-> i,
               cptimes |-> Append(cptimes, NaN),
               cpranks |-> Append(cpranks, NaN)]

\* Lines 125-129: an excluded checkpoint; the cursor moves when the split
\* under it is one of an excluded checkpoint too.
UselessStep(dict, splits, i, cptimes, cpranks) ==
    IF i >= Len(splits) THEN [err |-> "IndexError"]
    ELSE IF "idpt" \notin DOMAIN splits[i + 1] THEN [err |-> "KeyError"]
    ELSE IF splits[i + 1]["idpt"] \notin DOMAIN dict THEN [err |-> "KeyError"]
    ELSE [err |-> "none",
          i |-> IF dict[splits[i + 1]["idpt"]] \in useless THEN i + 1 ELSE i,
          cptimes |-> cptimes, cpranks |-> cpranks]

\* Lines 124-137: one iteration of "for id in checkpoints_ids".
MergeStep(id, dict, splits, i, cptimes, cpranks) ==
    IF dict[id] \in useless
    THEN UselessStep(dict, splits, i, cptimes, cpranks)
    ELSE SlotStep(id, splits, i, cptimes, cpranks)

RECURSIVE MergeLoop(_, _, _, _, _, _, _)
MergeLoop(ids, dict, splits, k, i, cptimes, cpranks) ==
    IF k > Len(ids)
    THEN [err |-> "none", cptimes |-> cptimes, cpranks |-> cpranks]
    ELSE LET s == MergeStep(ids[k], dict, splits, i, cptimes, cpranks) IN
         IF s.err # "none"
         THEN [err |-> s.err, cptimes |-> cptimes, cpranks |-> cpranks]
         ELSE MergeLoop(ids, dict, splits, k + 1, s.i, s.cptimes, s.cpranks)

\* Lines 115-137.
Merge(root) ==
    IF \E k \in 1..Len(root.pts) : ~({"idpt", "n"} \subseteq DOMAIN root.pts[k])
    THEN [err |-> "KeyError", cptimes |-> <<>>, cpranks |-> <<>>]
    ELSE MergeLoop(checkpoints_ids(root.pts), checkpoint_dict(root.pts),
                   root.pass, 1, 0, <<>>, <<>>)

\* Lines 140-151.
RaceAttrs == {"year", "race", "pos", "tps", "dist"}

Achievement(race) ==
    [Year |-> race["year"], Race |-> race["race"], Position |-> race["pos"],
     Time |-> race["tps"], Distance |-> race["dist"],
     ElevationGain |-> IF "deniv" \in DOMAIN race THEN race["deniv"] ELSE None]

Achievements(root) ==
    LET past_races == IF root.palm = <<>> THEN <<>> ELSE root.palm[1].e IN
    IF \E k \in 1..Len(past_races) : ~(RaceAttrs \subseteq DOMAIN past_races[k])
    THEN [err |-> "KeyError", list |-> <<>>]
    ELSE [err |-> "none",
          list |-> [k \in 1..Len(past_races) |-> Achievement(past_races[k])]]

\* Lines 154-155.
UtmbIndex(root) ==
    IF root.palm # <<>> THEN Get(root.palm[1].attrib, "cote", None) ELSE None

\* Lines 158-186: the dict literal; cptimes[6] is the last index it reads.
RunnerRecord(year, bib, id, rk, index, cptimes, cpranks, achievements) ==
       ("Year" :> year) @@ ("Bib Number" :> bib)
    @@ ("Last Name" :> id.name) @@ ("First Name" :> id.first_name)
    @@ ("Sex" :> id.sex) @@ ("Category" :> id.category)
    @@ ("Club" :> id.club) @@ ("Nationality" :> id.nationality)
    @@ ("Global Rank" :> rk.global_rank)
    @@ ("Category Rank" :> rk.category_rank)
    @@ ("Gender Rank" :> rk.gender_rank)
    @@ ("UTMB Index" :> index)
    @@ ("Pt0 time" :> cptimes[1]) @@ ("Pt0 rank" :> cpranks[1])
    @@ ("Pt1 time" :> cptimes[2]) @@ ("Pt1 rank" :> cpranks[2])
    @@ ("Pt2 time" :> cptimes[3]) @@ ("Pt2 rank" :> cpranks[3])
    @@ ("Pt3 time" :> cptimes[4]) @@ ("Pt3 rank" :> cpranks[4])
    @@ ("Pt4 time" :> cptimes[5]) @@ ("Pt4 rank" :> cpranks[5])
    @@ ("Pt5 time" :> cptimes[6]) @@ ("Pt5 rank" :> cpranks[6])
    @@ ("Pt6 time" :> cptimes[7]) @@ ("Pt6 rank" :> cpranks[7])
    @@ ("Past Achievements" :> achievements)

\* The index the dict literal reads last, plus one: it raises below that.
SlotsRead(cptimes) == Len(cptimes) >= 7

\* Lines 95-186 for one bib: the record appended to data, or the exception.
Normalize(response, year, bib) ==
    IF response.status_code >= 400 THEN [err |-> "HTTPError"]
    ELSE IF ~response.xml THEN [err |-> "ParseError"]
    ELSE LET id == Identity(response)
             rk == Rankings(response)
             mg == Merge(response)
             ac == Achievements(response)
             e  == FirstError(<<id.err, rk.err, mg.err, ac.err>>)
         IN  IF e # "none" THEN [err |-> e]
             ELSE IF ~SlotsRead(mg.cptimes) THEN [err |-> "IndexError"]
             ELSE [err |-> "none",
                   record |-> RunnerRecord(year, bib, id, rk, UtmbIndex(response),
                                           mg.cptimes, mg.cpranks, ac.list)]

(***************************************************************************)
(* The 2017 edition (lines 198-217): a row is the attrib map of one        *)
(* classement/c element; every field is read with attrib.get.              *)
(***************************************************************************)
\* LegacyRecord with the final time and rank put in the first slot.
LegacyRecordFirstSlot(runner) ==
       ("Year" :> 2017)
    @@ ("Bib Number" :> Get(runner, "doss", None))
    @@ ("Last Name" :> Get(runner, "nom", None))
    @@ ("First Name" :> Get(runner, "prenom", None))
    @@ ("Sex" :> Get(runner, "sx", None))
    @@ ("Category" :> Get(runner, "cat", None))
    @@ ("Club" :> Get(runner, "club", None))
    @@ ("Nationality" :> Get(runner, "pays", None))
    @@ ("Global Rank" :> Get(runner, "class", None))
    @@ ("Category Rank" :> Get(runner, "classcat", None))
    @@ ("UTMB Index" :> Get(runner, "index", None))
    @@ ("Pt0 time" :> Get(runner, "tps", None))
    @@ ("Pt0 rank" :> Get(runner, "class", None))

LegacyRecord(runner) ==
       ("Year" :> 2017)
    @@ ("Bib Number" :> Get(runner, "doss", None))
    @@ ("Last Name" :> Get(runner, "nom", None))
    @@ ("First Name" :> Get(runner, "prenom", None))
    @@ ("Sex" :> Get(runner, "sx", None))
    @@ ("Category" :> Get(runner, "cat", None))
    @@ ("Club" :> Get(runner, "club", None))
    @@ ("Nationality" :> Get(runner, "pays", None))
    @@ ("Global Rank" :> Get(runner, "class", None))
    @@ ("Category Rank" :> Get(runner, "classcat", None))
    @@ ("UTMB Index" :> Get(runner, "index", None))
    @@ ("Pt6 time" :> Get(runner, "tps", None))
    @@ ("Pt6 rank" :> Get(runner, "class", None))

(***************************************************************************)
(* Documents.  Checkpoint k of a document has idpt ToString(k); the        *)
(* attribute values carry the idpt, so that a value tells its origin.      *)
(***************************************************************************)
Pt(k, name) ==
    [idpt |-> ToString(k), n |-> name, km |-> "km" \o ToString(k),
     a |-> "a" \o ToString(k), d |-> "d" \o ToString(k)]

RegularName(k) == "CP" \o ToString(k)

SplitTime(k) == "t" \o ToString(k)

SplitRank(k) == "r" \o ToString(k)

Split(k, ranked) ==
    IF ranked
    THEN [idpt |-> ToString(k), tps |-> SplitTime(k), clt |-> SplitRank(k)]
    ELSE [idpt |-> ToString(k), tps |-> SplitTime(k)]

OptionalFields ==
    {"prenom", "club", "cltcat", "cltsx", "deniv", "cote", "palm"}

IdentiteAttrib(absent) ==
    [key \in {"nom", "prenom", "sx", "cat", "club", "nat"} \ absent |->
        CASE key = "nom" -> "DUPONT" [] key = "prenom" -> "Jean"
          [] key = "sx" -> "H" [] key = "cat" -> "SEH"
          [] key = "club" -> "ASVEL" [] key = "nat" -> "FRA"]

StateAttrib(absent) ==
    [key \in {"clt", "cltcat", "cltsx"} \ absent |->
        CASE key = "clt" -> "12" [] key = "cltcat" -> "7" [] key = "cltsx" -> "11"]

Race(k, absent) ==
    [key \in {"year", "race", "pos", "tps", "dist", "deniv"} \ absent |->
        CASE key = "year" -> "201" \o ToString(k) [] key = "race" -> "UTMB"
          [] key = "pos" -> "40" [] key = "tps" -> "30:00:00"
          [] key = "dist" -> "170" [] key = "deniv" -> "10000"]

Palm(races, absent) ==
    IF "palm" \in absent THEN <<>>
    ELSE <<[attrib |-> [key \in {"cote"} \ absent |-> "650"],
            e |-> [k \in 1..races |-> Race(k, absent)]]>>

\* The subsequence of 1..len whose members are in keep, in increasing order.
RECURSIVE Kept(_, _)
Kept(len, keep) ==
    IF len = 0 THEN <<>>
    ELSE IF len \in keep THEN Append(Kept(len - 1, keep), len)
                         ELSE Kept(len - 1, keep)

\* A runner page: names gives each checkpoint's name, have the checkpoints
\* with a recorded split, unranked the splits without clt, absent the
\* optional attributes (and the palm element) the document lacks.
RunnerPage(names, have, unranked, races, absent) ==
    LET at == Kept(Len(names), have) IN
    [status_code |-> 200, xml |-> TRUE,
     identite |-> <<IdentiteAttrib(absent)>>,
     state |-> <<StateAttrib(absent)>>,
     pts |-> [k \in 1..Len(names) |-> Pt(k, names[k])],
     pass |-> [j \in 1..Len(at) |-> Split(at[j], at[j] \notin unranked)],
     palm |-> Palm(races, absent)]

\* A page the site does not have: an error status and a body that is no XML.
NotFoundPage ==
    [status_code |-> 404, xml |-> FALSE, identite |-> <<>>, state |-> <<>>,
     pts |-> <<>>, pass |-> <<>>, palm |-> <<>>]

AllNames(len) ==
    {names \in [1..len -> {"regular"} \cup useless] :
        Cardinality({k \in 1..len : names[k] \in useless}) <= MaxExcluded}

Named(names) ==
    [k \in 1..Len(names) |->
        IF names[k] = "regular" THEN RegularName(k) ELSE names[k]]

\* The documents of the split merge study: every choice of at most MaxPts
\* checkpoints, of the excluded ones among them and of the recorded splits.
MergeDoc(names, have) == RunnerPage(Named(names), have, {}, 0, {})

\* The document of the end-to-end scenario: checkpoints [animation, A, B]
\* and the single split (A, "01:00:00", rank 5).
ScenarioDoc ==
    [RunnerPage(<<"Animation 500m", "A", "B">>, {}, {}, 0, {}) EXCEPT
        !.pass = <<[idpt |-> "2", tps |-> "01:00:00", clt |-> "5"]>>]

\* The documents of the optional field study: the checkpoints are regular
\* and all recorded, at most one split (noclt, 0 for none) has no rank.
FieldDoc(len, noclt, races, absent) ==
    RunnerPage([k \in 1..len |-> RegularName(k)], 1..len, {noclt}, races, absent)

FieldLens == {n \in 0..MaxPts : n + 2 >= MaxPts}

StudyYear == Years[1]

StudyBib == "1"

\* The normalizer applied to doc: the merge alone, the checkpoint extractor
\* and the whole record construction.
Study(response) ==
    [stage |-> "done",
     merge |-> Merge(response),
     info |-> extract_checkpoints(response, StudyYear),
     result |-> Normalize(response, StudyYear, StudyBib)]

(***************************************************************************)
(* The site during one run.  The runner page of a bib is fixed for the     *)
(* run (the script fetches the first bib's page twice); the ranking pages  *)
(* and the 2017 ranking are chosen when they are fetched.                  *)
(***************************************************************************)
Bibs == {"1", "2", "3", "4"}

\* The 2023 and 2024 pages declare the two excluded checkpoints.
YearNames(year) ==
    IF year \in {2023, 2024}
    THEN <<"Animation 500m", RegularName(2), RegularName(3), "KM BV SPORT",
           RegularName(5), RegularName(6), RegularName(7), RegularName(8),
           RegularName(9)>>
    ELSE [k \in 1..7 |-> RegularName(k)]

RegularAt(names) == {k \in 1..Len(names) : names[k] \notin useless}

\* Bib 1: a finisher with every split and every attribute.  Bib 2: a page
\* that declares one more checkpoint, of a runner with no split at the
\* second timed checkpoint (nor at the excluded ones), one unranked split
\* and no optional attribute.  Bib 3: no such page.  Bib 4: a page that
\* declares no checkpoint.
Page(year, bib) ==
    LET names == YearNames(year)
        longer == Append(names, RegularName(Len(names) + 1))
        second == CHOOSE k \in RegularAt(names) :
                      Cardinality({j \in RegularAt(names) : j < k}) = 1
    IN  CASE bib = "1" -> RunnerPage(names, 1..Len(names), {}, 1, {})
          [] bib = "2" -> RunnerPage(longer, RegularAt(longer) \ {second},
                                     {Len(names)}, 0, OptionalFields)
          [] bib = "3" -> NotFoundPage
          [] OTHER -> RunnerPage(<<>>, {}, {}, 0, {})

RECURSIVE SeqsUpTo(_, _)
SeqsUpTo(S, n) ==
    IF n = 0 THEN {<<>>}
    ELSE LET shorter == SeqsUpTo(S, n - 1)
         IN  shorter \cup {Append(q, x) : q \in shorter, x \in S}

RankingPages ==
    {[status_code |-> 200, doss |-> bibs] : bibs \in SeqsUpTo(Bibs, MaxBibs)}
    \cup {[status_code |-> 404, doss |-> <<>>]}

LegacyRows ==
    {[doss |-> "9", nom |-> "MARTIN", prenom |-> "Lea", sx |-> "F", cat |-> "SEF",
      club |-> "CAF", pays |-> "FRA", class |-> "3", classcat |-> "1",
      index |-> "700", tps |-> "06:10:00"],
     [doss |-> "8", nom |-> "ANONYME", class |-> "4", tps |-> "06:20:00"]}

LegacyPages ==
    {[xml |-> TRUE, rows |-> rows] : rows \in SeqsUpTo(LegacyRows, MaxLegacy)}
    \cup {[xml |-> FALSE, rows |-> <<>>]}

(***************************************************************************)
(* pd.DataFrame(rows).to_csv(...): the columns are the keys of all rows,   *)
(* a row without a key gets nan there, and nan and None are written as     *)
(* the empty field; a list is written as its repr.                         *)
(***************************************************************************)
Quoted(v) == IF v = None THEN "None" ELSE "'" \o v \o "'"

ReprRace(r) ==
    "{'Year': " \o Quoted(r.Year) \o ", 'Race': " \o Quoted(r.Race)
    \o ", 'Position': " \o Quoted(r.Position) \o ", 'Time': " \o Quoted(r.Time)
    \o ", 'Distance': " \o Quoted(r.Distance)
    \o ", 'Elevation Gain': " \o Quoted(r.ElevationGain) \o "}"

RECURSIVE ReprItems(_, _)
ReprItems(list, k) ==
    IF k > Len(list) THEN ""
    ELSE (IF k > 1 THEN ", " ELSE "") \o ReprRace(list[k]) \o ReprItems(list, k + 1)

ReprList(list) == "[" \o ReprItems(list, 1) \o "]"

CsvField(row, key) ==
    IF key \notin DOMAIN row THEN ""
    ELSE IF key = "Year" THEN ToString(row[key])
    ELSE IF key = "Past Achievements" THEN ReprList(row[key])
    ELSE IF row[key] \in {None, NaN} THEN ""
    ELSE row[key]

to_csv(rows) ==
    LET columns == UNION {DOMAIN rows[k] : k \in 1..Len(rows)}
    IN  [k \in 1..Len(rows) |-> [key \in columns |-> CsvField(rows[k], key)]]

(***************************************************************************)
(* The script.                                                             *)
(***************************************************************************)
year == Years[yi]

Idle == [stage |-> "idle"]

Init ==
    /\ pc = "bibs"
    /\ yi = 1
    /\ bib_numbers = <<>>
    /\ bi = 0
    /\ legacy_rows = <<>>
    /\ data = <<>>
    /\ checkpoint_data = <<>>
    /\ file_results_new = <<>>
    /\ file_results = <<>>
    /\ file_checkpoints = <<>>
    /\ error = "none"
    /\ served = <<>>
    /\ doc = NotFoundPage
    /\ out = Idle

\* An unhandled exception ends the script; memory is lost, files stay.
Raise(e) ==
    /\ pc' = "aborted"
    /\ error' = e

\* Lines 83-87.
ExtractBibs ==
    /\ pc = "bibs"
    /\ \E page \in RankingPages :
          /\ bib_numbers' = extract_bib_numbers(page)
          /\ served' = Append(served, page)
    /\ pc' = "checkpoints"
    /\ bi' = 0
    /\ UNCHANGED <<yi, legacy_rows, data, checkpoint_data, file_results_new,
                   file_results, file_checkpoints, error, doc, out>>

\* ExtractCheckpoints reading the page of the last bib of the list.
ExtractCheckpointsLastBib ==
    /\ pc = "checkpoints"
    /\ IF bib_numbers = <<>>
       THEN Raise("IndexError") /\ UNCHANGED checkpoint_data
       ELSE LET r == extract_checkpoints(
                         Page(year, bib_numbers[Len(bib_numbers)]), year) IN
            IF r.err # "none"
            THEN Raise(r.err) /\ UNCHANGED checkpoint_data
            ELSE /\ checkpoint_data' = Append(checkpoint_data, r.info)
                 /\ pc' = "runner"
                 /\ UNCHANGED error
    /\ UNCHANGED <<yi, bib_numbers, bi, legacy_rows, data, file_results_new,
                   file_results, file_checkpoints, served, doc, out>>

\* Line 90: bib_numbers[0] raises on the empty list.
ExtractCheckpoints ==
    /\ pc = "checkpoints"
    /\ IF bib_numbers = <<>>
       THEN Raise("IndexError") /\ UNCHANGED checkpoint_data
       ELSE LET r == extract_checkpoints(Page(year, bib_numbers[1]), year) IN
            IF r.err # "none"
            THEN Raise(r.err) /\ UNCHANGED checkpoint_data
            ELSE /\ checkpoint_data' = Append(checkpoint_data, r.info)
                 /\ pc' = "runner"
                 /\ UNCHANGED error
    /\ UNCHANGED <<yi, bib_numbers, bi, legacy_rows, data, file_results_new,
                   file_results, file_checkpoints, served, doc, out>>

\* Lines 93-186: one iteration of the loop over bib_numbers.
ProcessRunner ==
    /\ pc = "runner"
    /\ bi < Len(bib_numbers)
    /\ LET bib == bib_numbers[bi + 1]
           r == Normalize(Page(year, bib), year, bib)
       IN  IF r.err # "none"
           THEN Raise(r.err) /\ UNCHANGED <<data, bi>>
           ELSE /\ data' = Append(data, r.record)
                /\ bi' = bi + 1
                /\ pc' = IF bi + 1 = Len(bib_numbers) THEN "save" ELSE "runner"
                /\ UNCHANGED error
    /\ UNCHANGED <<yi, bib_numbers, legacy_rows, checkpoint_data,
                   file_results_new, file_results, file_checkpoints, served,
                   doc, out>>

\* SaveYear writing the rows of the year just processed only.
SaveYearOnly ==
    /\ pc = "save"
    /\ file_results_new' = to_csv(SelectSeq(data, LAMBDA r : r["Year"] = year))
    /\ file_checkpoints' = to_csv(SelectSeq(checkpoint_data, LAMBDA c : c["Year"] = year))
    /\ yi' = yi + 1
    /\ pc' = IF yi < Len(Years) THEN "bibs" ELSE "legacy"
    /\ UNCHANGED <<bib_numbers, bi, legacy_rows, data, checkpoint_data,
                   file_results, error, served, doc, out>>

\* Lines 189-192, then the next year of the loop or the 2017 edition.
SaveYear ==
    /\ pc = "save"
    /\ file_results_new' = to_csv(data)
    /\ file_checkpoints' = to_csv(checkpoint_data)
    /\ yi' = yi + 1
    /\ pc' = IF yi < Len(Years) THEN "bibs" ELSE "legacy"
    /\ UNCHANGED <<bib_numbers, bi, legacy_rows, data, checkpoint_data,
                   file_results, error, served, doc, out>>

\* Lines 198-199 and the findall of line 202.
FetchLegacy ==
    /\ pc = "legacy"
    /\ \E page \in LegacyPages :
          IF ~page.xml
          THEN Raise("ParseError") /\ UNCHANGED <<legacy_rows, bi>>
          ELSE /\ legacy_rows' = page.rows
               /\ bi' = 0
               /\ pc' = "legacy_loop"
               /\ UNCHANGED error
    /\ UNCHANGED <<yi, bib_numbers, data, checkpoint_data, file_results_new,
                   file_results, file_checkpoints, served, doc, out>>

\* Lines 202-217: one iteration; bi counts the rows already read.
LegacyRunner ==
    /\ pc = "legacy_loop"
    /\ bi < Len(legacy_rows)
    /\ data' = Append(data, LegacyRecord(legacy_rows[bi + 1]))
    /\ bi' = bi + 1
    /\ UNCHANGED <<pc, yi, bib_numbers, legacy_rows, checkpoint_data,
                   file_results_new, file_results, file_checkpoints, error,
                   served, doc, out>>

\* Lines 221-224.
FinalSave ==
    /\ pc = "legacy_loop"
    /\ bi = Len(legacy_rows)
    /\ file_results' = to_csv(data)
    /\ file_checkpoints' = to_csv(checkpoint_data)
    /\ pc' = "done"
    /\ UNCHANGED <<yi, bib_numbers, bi, legacy_rows, data, checkpoint_data,
                   file_results_new, error, served, doc, out>>

Next ==
    \/ ExtractBibs
    \/ ExtractCheckpoints
    \/ ProcessRunner
    \/ SaveYear
    \/ FetchLegacy
    \/ LegacyRunner
    \/ FinalSave

Spec == Init /\ [][Next]_vars

(***************************************************************************)
(* The per-runner code applied to one document: the split merge on every   *)
(* document of MergeDocs (and the scenario's), the optional fields on      *)
(* every document of FieldDocs.                                            *)
(***************************************************************************)
StudyInit ==
    /\ out = Idle
    /\ pc = "study"
    /\ yi = 1
    /\ bib_numbers = <<>>
    /\ bi = 0
    /\ legacy_rows = <<>>
    /\ data = <<>>
    /\ checkpoint_data = <<>>
    /\ file_results_new = <<>>
    /\ file_results = <<>>
    /\ file_checkpoints = <<>>
    /\ error = "none"
    /\ served = <<>>

NormalizeDoc ==
    /\ pc = "study"
    /\ out = Idle
    /\ out' = Study(doc)
    /\ UNCHANGED <<doc, runVars>>

InitMerge ==
    /\ \/ \E len \in 0..MaxPts : \E names \in AllNames(len) :
             \E have \in SUBSET (1..len) : doc = MergeDoc(names, have)
       \/ doc = ScenarioDoc
    /\ StudyInit

NextMerge == NormalizeDoc

SpecMerge == InitMerge /\ [][NextMerge]_vars

InitFields ==
    /\ \E len \in FieldLens : \E noclt \in 0..len : \E races \in 0..MaxRaces :
          \E absent \in SUBSET OptionalFields :
             doc = FieldDoc(len, noclt, races, absent)
    /\ StudyInit

NextFields == NormalizeDoc

SpecFields == InitFields /\ [][NextFields]_vars

(***************************************************************************)
(* Properties of the split merge, under SpecMerge.                         *)
(***************************************************************************)
Studied == out # Idle

\* The positions in doc.pts of the checkpoints that are not excluded.
RegularPts == Kept(Len(doc.pts), RegularAt([k \in 1..Len(doc.pts) |-> doc.pts[k].n]))

HasSplit(id) == \E j \in 1..Len(doc.pass) : doc.pass[j]["idpt"] = id

SplitOf(id) == doc.pass[CHOOSE j \in 1..Len(doc.pass) : doc.pass[j]["idpt"] = id]

\* Slot k of the merge (k from 0) is the split of the k-th regular checkpoint.
SlotById(k) ==
    LET id == doc.pts[RegularPts[k + 1]].idpt IN
    IF HasSplit(id)
    THEN /\ out.merge.cptimes[k + 1] = SplitOf(id)["tps"]
         /\ out.merge.cpranks[k + 1] = Get(SplitOf(id), "clt", "-")
    ELSE /\ out.merge.cptimes[k + 1] = NaN
         /\ out.merge.cpranks[k + 1] = NaN

\* What the merge does guarantee: when it ends without an exception, it has
\* one slot per regular checkpoint and every slot is matched by idpt.
MergeAlignsWhenItEnds ==
    (Studied /\ out.merge.err = "none") =>
        /\ Len(out.merge.cptimes) = Len(RegularPts)
        /\ Len(out.merge.cpranks) = Len(RegularPts)
        /\ \A k \in 0..(Len(RegularPts) - 1) : SlotById(k)

\* C1: for every document whose splits are a subsequence of its checkpoints,
\* the merge puts in slot k the time and rank of the split whose idpt is the
\* k-th non-excluded checkpoint's, and the missing sentinel when there is none.
C1_SplitsAlignedById ==
    Studied =>
        /\ out.merge.err = "none"
        /\ Len(out.merge.cptimes) = Len(RegularPts)
        /\ \A k \in 0..(Len(RegularPts) - 1) : SlotById(k)

ScenarioRecordExpected ==
    /\ out.result.err = "none"
    /\ out.result.record["Pt0 time"] = "01:00:00"
    /\ out.result.record["Pt0 rank"] = "5"
    /\ \A k \in 1..6 : /\ out.result.record[PtKey(k, "time")] = NaN
                       /\ out.result.record[PtKey(k, "rank")] = NaN

\* C2: once every recorded split is consumed, the remaining checkpoints get
\* the missing sentinel and the merge ends without error; the scenario
\* document [animation, A, B] with the split (A, 01:00:00, rank 5) yields a
\* record with Pt0 = (01:00:00, 5) and Pt1..Pt6 missing.
C2_TrailingGapYieldsRecord ==
    Studied =>
        /\ out.merge.err = "none"
        /\ \A k \in 0..(Len(RegularPts) - 1) :
              ~HasSplit(doc.pts[RegularPts[k + 1]].idpt)
                  => out.merge.cptimes[k + 1] = NaN
        /\ doc = ScenarioDoc => ScenarioRecordExpected

SlotKeys == {PtKey(k, what) : k \in 0..6, what \in {"time", "rank"}}

\* C3: every record has exactly 7 slots whatever the number n of non-excluded
\* checkpoints; with n < 7 the slots n..6 hold the missing sentinel.
C3_SevenSlotsWhateverCount ==
    (Studied /\ out.merge.err = "none") =>
        /\ out.result.err = "none"
        /\ {key \in DOMAIN out.result.record : key \notin SlotKeys}
             = {"Year", "Bib Number", "Last Name", "First Name", "Sex", "Category",
                "Club", "Nationality", "Global Rank", "Category Rank",
                "Gender Rank", "UTMB Index", "Past Achievements"}
        /\ SlotKeys \subseteq DOMAIN out.result.record
        /\ \A k \in 0..6 :
              IF k < Len(RegularPts)
              THEN /\ out.result.record[PtKey(k, "time")] = out.merge.cptimes[k + 1]
                   /\ out.result.record[PtKey(k, "rank")] = out.merge.cpranks[k + 1]
              ELSE /\ out.result.record[PtKey(k, "time")] = NaN
                   /\ out.result.record[PtKey(k, "rank")] = NaN

ExcludedTimes ==
    {doc.pass[j]["tps"] : j \in {i \in 1..Len(doc.pass) :
        \E k \in 1..Len(doc.pts) : /\ doc.pts[k].idpt = doc.pass[i]["idpt"]
                                   /\ doc.pts[k].n \in useless}}

\* C4: excluded checkpoints never take a slot nor shift one: one pair per
\* non-excluded checkpoint, no time of a split taken at an excluded
\* checkpoint, and the slot of a checkpoint is the index extract_checkpoints
\* gives it.
C4_ExcludedNeverShift ==
    Studied =>
        /\ out.merge.err = "none"
        /\ out.info.err = "none"
        /\ Len(out.merge.cptimes) = Len(RegularPts)
        /\ \A k \in 1..Len(out.merge.cptimes) :
              out.merge.cptimes[k] \notin ExcludedTimes
        /\ \A k \in 0..(Len(RegularPts) - 1) :
              /\ PtKey(k, "name") \in DOMAIN out.info.info
              /\ out.info.info[PtKey(k, "name")] = doc.pts[RegularPts[k + 1]].n
              /\ SlotById(k)

\* The same with the merge's exception set aside: what holds of the slots
\* and of the indices of extract_checkpoints whenever the merge ends.
ExcludedNeverShiftWhenItEnds ==
    (Studied /\ out.merge.err = "none") =>
        /\ out.info.err = "none"
        /\ DOMAIN out.info.info =
              {"Year"} \cup {PtKey(k, what) : k \in 0..(Len(RegularPts) - 1),
                             what \in {"name", "distance", "height", "total elevation"}}
        /\ \A k \in 1..Len(out.merge.cptimes) :
              out.merge.cptimes[k] \notin ExcludedTimes
        /\ \A k \in 0..(Len(RegularPts) - 1) :
              out.info.info[PtKey(k, "name")] = doc.pts[RegularPts[k + 1]].n

(***************************************************************************)
(* Properties of the optional fields, under SpecFields.                    *)
(***************************************************************************)
\* doc with every optional attribute and the palm element put back.
Completed ==
    [doc EXCEPT
        !.identite = <<IdentiteAttrib({})>>,
        !.state = <<StateAttrib({})>>,
        !.pass = [j \in 1..Len(doc.pass) |->
                     doc.pass[j] @@ ("clt" :> "r" \o doc.pass[j]["idpt"])],
        !.palm = IF doc.palm = <<>> THEN Palm(0, {})
                 ELSE Palm(Len(doc.palm[1].e), {})]

WhenCompleted == Normalize(Completed, StudyYear, StudyBib)

Present(element, key) == key \in DOMAIN element[1]

\* The value of a field of the record: the one of the completed document
\* when the attribute is there, one of absentValues when it is not.
Resolved(field, present, absentValues) ==
    IF present THEN out.result.record[field] = WhenCompleted.record[field]
    ELSE out.result.record[field] \in absentValues

RacesResolved ==
    LET got == out.result.record["Past Achievements"]
        full == WhenCompleted.record["Past Achievements"]
    IN  IF doc.palm = <<>> THEN got = <<>>
        ELSE /\ Len(got) = Len(doc.palm[1].e)
             /\ \A k \in 1..Len(got) :
                   got[k] = IF "deniv" \in DOMAIN doc.palm[1].e[k] THEN full[k]
                            ELSE [full[k] EXCEPT !.ElevationGain = None]

\* The rank of slot k + 1 when the split at checkpoint k + 1 has no clt.
SplitRanksResolved(absentValues) ==
    \A k \in 1..7 :
        /\ Resolved(PtKey(k - 1, "rank"), "clt" \in DOMAIN doc.pass[k], absentValues)
        /\ Resolved(PtKey(k - 1, "time"), TRUE, {})

FieldsResolved ==
    /\ \A field \in {"Year", "Bib Number", "Last Name", "Sex", "Category",
                     "Nationality", "Global Rank"} : Resolved(field, TRUE, {})
    /\ Resolved("First Name", Present(doc.identite, "prenom"), {None})
    /\ Resolved("Club", Present(doc.identite, "club"), {""})
    /\ Resolved("Category Rank", Present(doc.state, "cltcat"), {None})
    /\ Resolved("Gender Rank", Present(doc.state, "cltsx"), {None})
    /\ Resolved("UTMB Index",
                doc.palm # <<>> /\ "cote" \in DOMAIN doc.palm[1].attrib, {None})
    /\ RacesResolved

\* C8, as stated: a document lacking any of the optional fields yields the
\* record of the completed document with each absent field at its absent
\* value: the empty string for club, the absent value (None, or the missing
\* sentinel of a slot) for every other one, the rank of a split included.
C8_AbsentFieldsGetAbsentValue ==
    Studied =>
        /\ out.result.err = WhenCompleted.err
        /\ out.result.err = "none" => (FieldsResolved /\ SplitRanksResolved({None, NaN}))

\* C8, amended: the rank of a split without clt is the placeholder "-".
C8_AbsentFieldsResolved ==
    Studied =>
        /\ out.result.err = WhenCompleted.err
        /\ out.result.err = "none" => (FieldsResolved /\ SplitRanksResolved({"-"}))

C8_Witness ==
    /\ Studied
    /\ out.result.err = "none"
    /\ DOMAIN doc.identite[1] = {"nom", "sx", "cat", "nat"}
    /\ DOMAIN doc.state[1] = {"clt"}
    /\ doc.palm # <<>>
    /\ "cote" \notin DOMAIN doc.palm[1].attrib
    /\ Len(doc.palm[1].e) > 0
    /\ "deniv" \notin DOMAIN doc.palm[1].e[1]
    /\ \E j \in 1..Len(doc.pass) : "clt" \notin DOMAIN doc.pass[j]
    /\ out.result.record["First Name"] = None
    /\ out.result.record["Club"] = ""

(***************************************************************************)
(* Properties of the run, under Spec.                                      *)
(***************************************************************************)
\* The ranking response of the year in progress, once it is fetched.
RankingFetched == pc \notin {"bibs", "study"} /\ Len(served) = yi

Ranking == served[Len(served)]

\* C5: a ranking fetch that fails, or a ranking page without any bib, gives
\* the empty bib list and does not abort the run.
C5_EmptyRankingDoesNotAbort ==
    (RankingFetched /\ (Ranking.status_code # 200 \/ Ranking.doss = <<>>)) =>
        /\ bib_numbers = <<>>
        /\ pc # "aborted"

SavedYears == {Years[k] : k \in 1..(yi - 1)}

OfSavedYears(rows) == SelectSeq(rows, LAMBDA r : r["Year"] \in SavedYears)

\* C6: what the two files of the per-year save hold is, at any time and so
\* after an abort too, the whole of the two accumulators for the years whose
\* runner loop was completed and saved.
C6_SavedYearsSurvive ==
    /\ file_results_new = to_csv(OfSavedYears(data))
    /\ file_checkpoints = to_csv(OfSavedYears(checkpoint_data))
    /\ Len(OfSavedYears(checkpoint_data)) = yi - 1
    /\ \A k \in 1..(yi - 1) :
          Len(SelectSeq(data, LAMBDA r : r["Year"] = Years[k])) = Len(served[k].doss)

C6_Witness ==
    /\ pc = "aborted"
    /\ yi = 2
    /\ Len(file_results_new) = 2
    /\ Len(data) = 3
    /\ Len(file_checkpoints) = 1
    /\ Len(checkpoint_data) = 2

EarlySlotKeys == {PtKey(k, what) : k \in 0..5, what \in {"time", "rank"}}

LegacyCount == Cardinality({i \in 1..Len(data) : data[i]["Year"] = 2017})

LegacyShape(i) ==
    LET r == data[i]
        row == legacy_rows[i - (Len(data) - LegacyCount)]
    IN  /\ DOMAIN r \cap (EarlySlotKeys \cup {"Past Achievements"}) = {}
        /\ r["Pt6 time"] = Get(row, "tps", None)
        /\ r["Pt6 rank"] = Get(row, "class", None)
        /\ r["Global Rank"] = r["Pt6 rank"]
        /\ r["Bib Number"] = Get(row, "doss", None)
        /\ r["Last Name"] = Get(row, "nom", None)
        /\ r["First Name"] = Get(row, "prenom", None)
        /\ r["Sex"] = Get(row, "sx", None)
        /\ r["Category"] = Get(row, "cat", None)
        /\ r["Club"] = Get(row, "club", None)
        /\ r["Nationality"] = Get(row, "pays", None)
        /\ r["Category Rank"] = Get(row, "classcat", None)
        /\ \A j \in i..Len(data) : data[j]["Year"] = 2017

LegacyFileRow(i) ==
    /\ file_results[i]["Year"] = "2017"
    /\ \A key \in EarlySlotKeys \cup {"Past Achievements"} :
          file_results[i][key] = ""
    /\ file_results[i]["Pt6 time"] = Get(legacy_rows[i - (Len(data) - LegacyCount)],
                                         "tps", "")

\* C7: a 2017 record has no slot 0 to 5 and no past achievement, its slot 6
\* is the final time and the global rank, its identity and rank fields are
\* those of the ranking row; the 2017 records come after all the others and
\* are in the final file, where their slots 0 to 5 are empty.
C7_LegacyRecordsShape ==
    /\ LegacyCount = (IF pc \in {"legacy_loop", "done"} THEN bi ELSE 0)
    /\ \A i \in 1..Len(data) : data[i]["Year"] = 2017 => LegacyShape(i)
    /\ pc = "done" =>
          /\ LegacyCount = Len(legacy_rows)
          /\ Len(file_results) = Len(data)
          /\ \A i \in 1..Len(data) : data[i]["Year"] = 2017 => LegacyFileRow(i)

C7_Witness ==
    /\ pc = "done"
    /\ LegacyCount > 0
    /\ Len(data) > LegacyCount
    /\ file_results[Len(data)]["Pt6 time"] = "06:20:00"

\* C9: extract_checkpoints gives no record for a document without any
\* pts/pt element, so that no row of the checkpoint accumulator comes from
\* such a document.
C9_NoRowWithoutCheckpointList ==
    \A k \in 1..Len(checkpoint_data) :
        Page(Years[k], served[k].doss[1]).pts # <<>>

AtSave ==
    \/ pc = "save"
    \/ pc = "legacy_loop" /\ bi = Len(legacy_rows)

CompletedYears == IF pc = "save" THEN yi ELSE Len(Years)

RECURSIVE YearBibPairs(_)
YearBibPairs(k) ==
    IF k = 0 THEN <<>>
    ELSE YearBibPairs(k - 1)
         \o [j \in 1..Len(served[k].doss) |-> <<Years[k], served[k].doss[j]>>]

YearConsistent ==
    /\ Len(checkpoint_data) = CompletedYears
    /\ \A k \in 1..CompletedYears :
          /\ checkpoint_data[k]["Year"] = Years[k]
          /\ checkpoint_data[k] =
                extract_checkpoints(Page(Years[k], served[k].doss[1]), Years[k]).info
    /\ LET yearly == SelectSeq(data, LAMBDA r : r["Year"] # 2017)
       IN  /\ [i \in 1..Len(yearly) |-> <<yearly[i]["Year"], yearly[i]["Bib Number"]>>]
                = YearBibPairs(CompletedYears)
           /\ SubSeq(data, 1, Len(yearly)) = yearly

IsPrefix(s, t) == Len(s) <= Len(t) /\ SubSeq(t, 1, Len(s)) = s

\* C10: the accumulators only grow; at every save the checkpoint
\* accumulator has one entry per completed year, made from the page of the
\* year's first bib, and the results accumulator has, for these years in
\* order, one record per bib of the ranking page in page order (followed, at
\* the final save, by the 2017 records only).
C10_AccumulatorsYearConsistent ==
    /\ [](AtSave => YearConsistent)
    /\ [][IsPrefix(data, data') /\ IsPrefix(checkpoint_data, checkpoint_data')]_vars

C10_Witness ==
    /\ pc = "save"
    /\ yi = 2
    /\ served[1].doss = <<"2", "1">>
    /\ served[2].doss = <<"1", "1">>
    /\ Len(data) = 4

====
